---- MODULE Spec2Model ----
(***************************************************************************)
(* Model of codingame-weights-optimizer: the base-8192 text codec          *)
(* (optimizer.py and its copy in inference.py), the float16 precision      *)
(* reduction and the compress / decompress pipelines built on them.        *)
(*                                                                         *)
(* Representation.  A byte is an integer in 0..255 and a bytes object a    *)
(* sequence of them.  A character is its Unicode code point (chr(c) is c)  *)
(* and a str a sequence of code points.  A string of binary digits, as     *)
(* produced by the format specs 08b and 013b, is a sequence over {0, 1},   *)
(* most significant digit first.  Python lists indexed from 0 are          *)
(* functions on 0..n-1; values that are only iterated are sequences.       *)
(***************************************************************************)
EXTENDS Integers, Sequences, FiniteSets, TLC

(***************************************************************************)
(* Bounds of the explored inputs.                                          *)
(***************************************************************************)
\* Longest byte sequence enumerated exhaustively over ByteVals.
MaxLen == 6
\* Longest externally supplied text enumerated over TextChars.
MaxTextLen == 3
\* Most elements in an array of an archive.
MaxElems == 1
\* Most symbols cut from the end of a written artifact before it is read.
MaxCut == 1

\* Byte values the enumerated inputs are built from: all bits clear, all
\* bits set, and a value whose first and last bits differ from its middle.
ByteVals == {0, 129, 255}

\* Lengths of the additional longer inputs, one fill pattern per byte
\* value: with 0..MaxLen they cover every residue of the length modulo 13,
\* hence every padding amount from 0 to 12.
LongLens == {7, 8, 9, 10, 11, 12, 13, 100}

(***************************************************************************)
(* Python built-ins used by the code.                                      *)
(***************************************************************************)
Min(a, b) == IF a <= b THEN a ELSE b

\* range(start, stop, step) for step > 0, as a sequence.
Range(start, stop, step) ==
    [k \in 1..(IF stop > start THEN (stop - start + step - 1) \div step ELSE 0)
        |-> start + (k - 1) * step]

\* s[i:j] for 0 <= i <= j: the slice is clamped to the end of s.
Slice(s, i, j) == SubSeq(s, i + 1, Min(j, Len(s)))

\* Number of binary digits of v >= 0 (bin(0) has one digit).
RECURSIVE BitLength(_)
BitLength(v) == IF v < 2 THEN 1 ELSE 1 + BitLength(v \div 2)

\* f"{v:0<w>b}": the binary digits of v, zero-filled on the left to at
\* least w digits (never truncated).
Format(v, w) ==
    LET n == IF BitLength(v) > w THEN BitLength(v) ELSE w
    IN  [k \in 1..n |-> (v \div (2 ^ (n - k))) % 2]

\* int(s, 2) for a non-empty digit string s.
RECURSIVE Int2(_)
Int2(s) == IF Len(s) = 0 THEN 0
           ELSE 2 * Int2(SubSeq(s, 1, Len(s) - 1)) + s[Len(s)]

\* "".join(parts)
RECURSIVE Join(_)
Join(parts) == IF parts = << >> THEN << >> ELSE Head(parts) \o Join(Tail(parts))

\* "0" * n
Zeros(n) == [k \in 1..n |-> 0]

(***************************************************************************)
(* The alphabet tables.  CHINESE_CHARS and CHAR_TO_VAL are module-level    *)
(* objects (a list and a dict) of optimizer.py, and again of inference.py; *)
(* they are state, built when the module is imported.                      *)
(***************************************************************************)
VARIABLE modules    \* the globals of the imported modules, by module name

\* optimizer.CHINESE_CHARS and optimizer.CHAR_TO_VAL
CHINESE_CHARS == modules.optimizer.CHINESE_CHARS
CHAR_TO_VAL == modules.optimizer.CHAR_TO_VAL

\* inference.CHINESE_CHARS and inference.CHAR_TO_VAL
inference_CHINESE_CHARS == modules.inference.CHINESE_CHARS
inference_CHAR_TO_VAL == modules.inference.CHAR_TO_VAL

tables == <<modules>>

\* Faulty variant: the list built with range(8191), one symbol short.
Mut_ListOfChr_short == [i \in 0..8190 |-> 19968 + i]

\* [chr(0x4E00 + i) for i in range(8192)]
ListOfChr == [i \in 0..8191 |-> 19968 + i]

\* {ch: i for i, ch in enumerate(chars)} over the indices lo..hi: a later
\* index overwrites an earlier one with the same key (@@ keeps its left
\* operand, so the upper half goes on the left).
RECURSIVE DictOfRange(_, _, _)
DictOfRange(chars, lo, hi) ==
    IF lo > hi THEN << >>
    ELSE IF lo = hi THEN chars[lo] :> lo
    ELSE LET mid == (lo + hi) \div 2
         IN  DictOfRange(chars, mid + 1, hi) @@ DictOfRange(chars, lo, mid)

\* {ch: i for i, ch in enumerate(chars)}
DictOfEnumerate(chars) == DictOfRange(chars, 0, Cardinality(DOMAIN chars) - 1)

\* The module-level assignments of optimizer.py, run when it is imported:
\* CHINESE_CHARS = [chr(0x4E00 + i) for i in range(8192)]
\* CHAR_TO_VAL = {ch: i for i, ch in enumerate(CHINESE_CHARS)}
optimizer_import ==
    LET chars == ListOfChr
    IN  [CHINESE_CHARS |-> chars, CHAR_TO_VAL |-> DictOfEnumerate(chars)]

\* The same two assignments of inference.py.
inference_import ==
    LET chars == ListOfChr
    IN  [CHINESE_CHARS |-> chars, CHAR_TO_VAL |-> DictOfEnumerate(chars)]

(***************************************************************************)
(* Results of a call: a returned value or a raised exception.              *)
(***************************************************************************)
Return(v) == [kind |-> "return", value |-> v]
Raise(e, arg) == [kind |-> "raise", exc |-> e, arg |-> arg]
NotCalled == [kind |-> "none"]

(***************************************************************************)
(* Faulty variants of the codec, used to show that the checked properties  *)
(* depend on the code they are about.                                      *)
(***************************************************************************)
\* The encoder without its "if len(bits) % 13 != 0" test: 13 - 0 zero bits
\* are appended to a bit string that is already aligned.
Mut_to_chinese_always_pads(data) ==
    LET bits0  == Join([k \in 1..Len(data) |-> Format(data[k], 8)])
        bits   == bits0 \o Zeros(13 - (Len(bits0) % 13))
        starts == Range(0, Len(bits), 13)
    IN  [k \in 1..Len(starts) |->
            CHINESE_CHARS[Int2(Slice(bits, starts[k], starts[k] + 13))]]

\* The decoder without the "len(b) == 8" filter: the trailing incomplete
\* group becomes a byte of its own.
Mut_from_chinese_keeps_incomplete(text) ==
    LET bad == {k \in 1..Len(text) : text[k] \notin DOMAIN CHAR_TO_VAL}
    IN  IF bad # {}
        THEN Raise("KeyError", text[CHOOSE k \in bad : \A j \in bad : k <= j])
        ELSE LET bits       == Join([k \in 1..Len(text) |-> Format(CHAR_TO_VAL[text[k]], 13)])
                 starts     == Range(0, Len(bits), 8)
                 bytes_list == [k \in 1..Len(starts) |-> Slice(bits, starts[k], starts[k] + 8)]
             IN  Return([k \in 1..Len(bytes_list) |-> Int2(bytes_list[k])])

\* The decoder with "if ch in CHAR_TO_VAL" in its generator: characters
\* outside the alphabet are skipped instead of raising.
Mut_from_chinese_skips_unknown(text) ==
    LET known      == SelectSeq(text, LAMBDA ch : ch \in DOMAIN CHAR_TO_VAL)
        bits       == Join([k \in 1..Len(known) |-> Format(CHAR_TO_VAL[known[k]], 13)])
        starts     == Range(0, Len(bits), 8)
        bytes_list == [k \in 1..Len(starts) |-> Slice(bits, starts[k], starts[k] + 8)]
        complete   == SelectSeq(bytes_list, LAMBDA b : Len(b) = 8)
    IN  Return([k \in 1..Len(complete) |-> Int2(complete[k])])

\* The decoder with the format spec 012b for 013b.
Mut_from_chinese_width12(text) ==
    LET bad == {k \in 1..Len(text) : text[k] \notin DOMAIN CHAR_TO_VAL}
    IN  IF bad # {}
        THEN Raise("KeyError", text[CHOOSE k \in bad : \A j \in bad : k <= j])
        ELSE LET bits       == Join([k \in 1..Len(text) |-> Format(CHAR_TO_VAL[text[k]], 12)])
                 starts     == Range(0, Len(bits), 8)
                 bytes_list == [k \in 1..Len(starts) |-> Slice(bits, starts[k], starts[k] + 8)]
                 complete   == SelectSeq(bytes_list, LAMBDA b : Len(b) = 8)
             IN  Return([k \in 1..Len(complete) |-> Int2(complete[k])])

(***************************************************************************)
(* optimizer.py: the codec.                                                *)
(***************************************************************************)
to_chinese_base8192(data) ==
    LET bits0  == Join([k \in 1..Len(data) |-> Format(data[k], 8)])
        bits   == IF Len(bits0) % 13 # 0
                  THEN bits0 \o Zeros(13 - (Len(bits0) % 13))
                  ELSE bits0
        starts == Range(0, Len(bits), 13)
    IN  [k \in 1..Len(starts) |->
            CHINESE_CHARS[Int2(Slice(bits, starts[k], starts[k] + 13))]]

\* The generator inside join() raises KeyError(ch) at the first character
\* that is no key of CHAR_TO_VAL; nothing is returned in that case.
from_chinese_base8192(text) ==
    LET bad == {k \in 1..Len(text) : text[k] \notin DOMAIN CHAR_TO_VAL}
    IN  IF bad # {}
        THEN Raise("KeyError", text[CHOOSE k \in bad : \A j \in bad : k <= j])
        ELSE LET bits       == Join([k \in 1..Len(text) |-> Format(CHAR_TO_VAL[text[k]], 13)])
                 starts     == Range(0, Len(bits), 8)
                 bytes_list == [k \in 1..Len(starts) |-> Slice(bits, starts[k], starts[k] + 8)]
                 complete   == SelectSeq(bytes_list, LAMBDA b : Len(b) = 8)
             IN  Return([k \in 1..Len(complete) |-> Int2(complete[k])])

(***************************************************************************)
(* inference.py: its own copy of the decoder, reading its own tables.      *)
(***************************************************************************)
\* ENCODED = "<YOUR_ENCODED_STRING_HERE>"
ENCODED ==
    <<60, 89, 79, 85, 82, 95, 69, 78, 67, 79, 68, 69, 68, 95,
      83, 84, 82, 73, 78, 71, 95, 72, 69, 82, 69, 62>>

\* Faulty variant of the copy: CHAR_TO_VAL.get(ch, 0) for CHAR_TO_VAL[ch].
Mut_inference_from_chinese_defaults(text) ==
    LET bits       == Join([k \in 1..Len(text) |->
                           Format(IF text[k] \in DOMAIN inference_CHAR_TO_VAL
                                  THEN inference_CHAR_TO_VAL[text[k]] ELSE 0, 13)])
        starts     == Range(0, Len(bits), 8)
        bytes_list == [k \in 1..Len(starts) |-> Slice(bits, starts[k], starts[k] + 8)]
        complete   == SelectSeq(bytes_list, LAMBDA b : Len(b) = 8)
    IN  Return([k \in 1..Len(complete) |-> Int2(complete[k])])

inference_from_chinese_base8192(text) ==
    LET bad == {k \in 1..Len(text) : text[k] \notin DOMAIN inference_CHAR_TO_VAL}
    IN  IF bad # {}
        THEN Raise("KeyError", text[CHOOSE k \in bad : \A j \in bad : k <= j])
        ELSE LET bits       == Join([k \in 1..Len(text) |->
                                        Format(inference_CHAR_TO_VAL[text[k]], 13)])
                 starts     == Range(0, Len(bits), 8)
                 bytes_list == [k \in 1..Len(starts) |-> Slice(bits, starts[k], starts[k] + 8)]
                 complete   == SelectSeq(bytes_list, LAMBDA b : Len(b) = 8)
             IN  Return([k \in 1..Len(complete) |-> Int2(complete[k])])

(***************************************************************************)
(* numpy, as far as float16_dict_from_npz uses it.  An array is its dtype  *)
(* (kind and itemsize in bytes) and its elements; an element is a finite   *)
(* integer value n, or an infinity of sign n.  An archive (the result of   *)
(* np.load) is the sequence of its (name, array) items, names distinct.    *)
(***************************************************************************)
DType(kind, itemsize) == [kind |-> kind, itemsize |-> itemsize]
float16 == DType("f", 2)
float32 == DType("f", 4)
float64 == DType("f", 8)
int64   == DType("i", 8)

Finite(n)   == [inf |-> FALSE, n |-> n]
Infinity(s) == [inf |-> TRUE, n |-> s]

Abs(n) == IF n < 0 THEN -n ELSE n
Sign(n) == IF n < 0 THEN -1 ELSE 1

\* IEEE 754 binary16 rounding of a finite integer value: 11 significant
\* bits, round to nearest, ties to even; a rounded magnitude of 2^16 or
\* more overflows to infinity.
RoundToFloat16(x) ==
    IF x.inf THEN x
    ELSE LET a    == Abs(x.n)
             q    == IF a < 2048 THEN 1 ELSE 2 ^ (BitLength(a) - 11)
             r    == a % q
             down == a - r
             near == IF 2 * r < q THEN down
                     ELSE IF 2 * r > q THEN down + q
                     ELSE IF (down \div q) % 2 = 0 THEN down ELSE down + q
         IN  IF near >= 65536 THEN Infinity(Sign(x.n)) ELSE Finite(Sign(x.n) * near)

\* v.astype(dtype); only the conversion to float16 is used.
astype(v, dtype) ==
    [dtype  |-> dtype,
     values |-> [k \in 1..Len(v.values) |->
                    IF dtype = float16 THEN RoundToFloat16(v.values[k]) ELSE v.values[k]]]

(***************************************************************************)
(* optimizer.py: precision reduction.                                      *)
(***************************************************************************)
\* Faulty variant: every array is converted, whatever its dtype.
Mut_float16_dict_converts_all(npz) ==
    [j \in 1..Len(npz) |-> <<npz[j][1], astype(npz[j][2], float16)>>]

\* {k: (v.astype(np.float16) if v.dtype.kind == "f" else v) for k, v in data.items()}
float16_dict_from_npz(npz) ==
    [j \in 1..Len(npz) |->
        <<npz[j][1],
          IF npz[j][2].dtype.kind = "f" THEN astype(npz[j][2], float16) ELSE npz[j][2]>>]

(***************************************************************************)
(* pickle, as far as the pipeline uses it: a self-delimiting byte format   *)
(* for an archive-shaped dict.  PROTO 4, EMPTY_DICT, then per item the     *)
(* name, the dtype kind and itemsize, the element count and four bytes     *)
(* per element (a tag and a 24-bit magnitude), then STOP.  loads parses    *)
(* exactly that format, stops at STOP and raises on anything else.         *)
(***************************************************************************)
NameCode(name) == CASE name = "w" -> 119 [] name = "b" -> 98
CodeName(c)    == CASE c = 119 -> "w" [] c = 98 -> "b"
KindCode(kind) == CASE kind = "f" -> 102 [] kind = "i" -> 105
CodeKind(c)    == CASE c = 102 -> "f" [] c = 105 -> "i"

ElementBytes(x) ==
    LET tag == IF x.inf THEN (IF x.n < 0 THEN 3 ELSE 2) ELSE (IF x.n < 0 THEN 1 ELSE 0)
        m   == IF x.inf THEN 0 ELSE Abs(x.n)
    IN  <<tag, (m \div 65536) % 256, (m \div 256) % 256, m % 256>>

ItemBytes(item) ==
    LET v == item[2]
    IN  <<NameCode(item[1]), KindCode(v.dtype.kind), v.dtype.itemsize, Len(v.values)>>
            \o Join([k \in 1..Len(v.values) |-> ElementBytes(v.values[k])])

pickle_dumps(obj) ==
    <<128, 4, 125>> \o Join([j \in 1..Len(obj) |-> ItemBytes(obj[j])]) \o <<46>>

ElementOf(raw, p) ==
    LET m == raw[p + 1] * 65536 + raw[p + 2] * 256 + raw[p + 3]
    IN  CASE raw[p] = 0 -> Finite(m)
          [] raw[p] = 1 -> Finite(-m)
          [] raw[p] = 2 -> Infinity(1)
          [] raw[p] = 3 -> Infinity(-1)

RECURSIVE LoadItems(_, _, _)
LoadItems(raw, pos, acc) ==
    IF pos > Len(raw) THEN Raise("EOFError", "Ran out of input")
    ELSE IF raw[pos] = 46 THEN Return(acc)
    ELSE IF pos + 3 > Len(raw) THEN Raise("UnpicklingError", "pickle data was truncated")
    ELSE IF \/ raw[pos] \notin {119, 98}
            \/ raw[pos + 1] \notin {102, 105}
            \/ raw[pos + 2] \notin {2, 4, 8}
         THEN Raise("UnpicklingError", "invalid load key")
    ELSE LET n == raw[pos + 3]
         IN  IF pos + 3 + 4 * n > Len(raw)
             THEN Raise("UnpicklingError", "pickle data was truncated")
             ELSE IF \E k \in 0..(n - 1) : raw[pos + 4 + 4 * k] > 3
             THEN Raise("UnpicklingError", "invalid load key")
             ELSE LoadItems(raw, pos + 4 + 4 * n,
                      Append(acc,
                          <<CodeName(raw[pos]),
                            [dtype  |-> DType(CodeKind(raw[pos + 1]), raw[pos + 2]),
                             values |-> [k \in 1..n |-> ElementOf(raw, pos + 4 * k)]]>>))

pickle_loads(raw) ==
    IF Len(raw) = 0 THEN Raise("EOFError", "Ran out of input")
    ELSE IF Len(raw) < 3 \/ SubSeq(raw, 1, 3) # <<128, 4, 125>>
    THEN Raise("UnpicklingError", "invalid load key")
    ELSE LoadItems(raw, 4, << >>)

(***************************************************************************)
(* zlib: a zlib stream (RFC 1950) holding one final stored deflate block   *)
(* (RFC 1951, 3.2.4): header 78 DA (level 9), block header 01, LEN and its *)
(* one's complement, the data, and the Adler-32 checksum, big-endian.      *)
(* decompress checks every field, raises zlib.error on a malformed or      *)
(* truncated stream, and ignores whatever follows the checksum, as         *)
(* zlib.decompress does.                                                   *)
(***************************************************************************)
RECURSIVE AdlerA(_)
AdlerA(raw) == IF raw = << >> THEN 1
               ELSE (AdlerA(SubSeq(raw, 1, Len(raw) - 1)) + raw[Len(raw)]) % 65521

RECURSIVE AdlerB(_)
AdlerB(raw) == IF raw = << >> THEN 0
               ELSE (AdlerB(SubSeq(raw, 1, Len(raw) - 1)) + AdlerA(raw)) % 65521

Adler32Bytes(raw) ==
    LET a == AdlerA(raw)
        b == AdlerB(raw)
    IN  <<b \div 256, b % 256, a \div 256, a % 256>>

zlib_compress(raw, level) ==
    LET n == Len(raw)
    IN  <<120, IF level = 9 THEN 218 ELSE 156>>
            \o <<1, n % 256, n \div 256, 255 - (n % 256), 255 - (n \div 256)>>
            \o raw \o Adler32Bytes(raw)

zlib_decompress(c) ==
    IF Len(c) < 2 THEN Raise("zlib.error", "incomplete or truncated stream")
    ELSE IF c[1] % 16 # 8 \/ (c[1] * 256 + c[2]) % 31 # 0
    THEN Raise("zlib.error", "incorrect header check")
    ELSE IF Len(c) < 3 THEN Raise("zlib.error", "incomplete or truncated stream")
    ELSE IF c[3] # 1 THEN Raise("zlib.error", "invalid block type")
    ELSE IF Len(c) < 7 THEN Raise("zlib.error", "incomplete or truncated stream")
    ELSE IF c[4] + c[6] # 255 \/ c[5] + c[7] # 255
    THEN Raise("zlib.error", "invalid stored block lengths")
    ELSE LET n == c[4] + 256 * c[5]
         IN  IF Len(c) < 7 + n + 4
             THEN Raise("zlib.error", "incomplete or truncated stream")
             ELSE IF SubSeq(c, 8 + n, 11 + n) # Adler32Bytes(SubSeq(c, 8, 7 + n))
             THEN Raise("zlib.error", "incorrect data check")
             ELSE Return(SubSeq(c, 8, 7 + n))

(***************************************************************************)
(* The text file: open(..., encoding="utf-8").                             *)
(***************************************************************************)
Utf8Char(cp) ==
    IF cp < 128 THEN <<cp>>
    ELSE IF cp < 2048 THEN <<192 + (cp \div 64), 128 + (cp % 64)>>
    ELSE <<224 + (cp \div 4096), 128 + ((cp \div 64) % 64), 128 + (cp % 64)>>

\* f.write(text)
utf8_encode(text) == Join([k \in 1..Len(text) |-> Utf8Char(text[k])])

\* f.read() of a file that holds well-formed UTF-8
RECURSIVE utf8_decode(_)
utf8_decode(bytes) ==
    IF bytes = << >> THEN << >>
    ELSE IF bytes[1] < 128
         THEN <<bytes[1]>> \o utf8_decode(SubSeq(bytes, 2, Len(bytes)))
    ELSE IF bytes[1] < 224
         THEN <<(bytes[1] - 192) * 64 + (bytes[2] - 128)>>
                  \o utf8_decode(SubSeq(bytes, 3, Len(bytes)))
    ELSE <<(bytes[1] - 224) * 4096 + (bytes[2] - 128) * 64 + (bytes[3] - 128)>>
             \o utf8_decode(SubSeq(bytes, 4, Len(bytes)))

(***************************************************************************)
(* optimizer.py: the pipelines.  A call's record carries the progress      *)
(* lines it printed before it returned or raised.                          *)
(***************************************************************************)
Printed(result, lines) == [result |-> result, stdout |-> lines]

\* The bytes compress_model_to_chinese writes to output_path.
compress_model_to_chinese(npz) ==
    LET obj        == float16_dict_from_npz(npz)
        raw        == pickle_dumps(obj)
        compressed == zlib_compress(raw, 9)
        encoded    == to_chinese_base8192(compressed)
    IN  [file   |-> utf8_encode(encoded),
         stdout |-> <<"Loading and converting to float16...",
                      "Pickling...",
                      <<"Raw size (bytes): ", Len(raw)>>,
                      "Compressing...",
                      <<"Compressed size (bytes): ", Len(compressed)>>,
                      "Encoding to Chinese base8192...",
                      <<"Encoded length (chars): ", Len(encoded)>>,
                      "Saved compressed model to model.txt">>]

\* Faulty variant: a failed decompression is swallowed and an empty dict
\* returned.
Mut_decompress_model_swallows(encoded) ==
    LET compressed == from_chinese_base8192(encoded)
    IN  IF compressed.kind = "raise"
        THEN Printed(compressed, <<"Decoding from Chinese base8192...">>)
        ELSE LET raw == zlib_decompress(compressed.value)
             IN  IF raw.kind = "raise"
                 THEN Printed(Return(<< >>), <<"Decoding from Chinese base8192...",
                                               "Decompressing...">>)
                 ELSE Printed(pickle_loads(raw.value),
                              <<"Decoding from Chinese base8192...",
                                "Decompressing...",
                                "Unpickling...">>)

decompress_model_from_chinese(encoded) ==
    LET compressed == from_chinese_base8192(encoded)
    IN  IF compressed.kind = "raise"
        THEN Printed(compressed, <<"Decoding from Chinese base8192...">>)
        ELSE LET raw == zlib_decompress(compressed.value)
             IN  IF raw.kind = "raise"
                 THEN Printed(raw, <<"Decoding from Chinese base8192...",
                                     "Decompressing...">>)
                 ELSE Printed(pickle_loads(raw.value),
                              <<"Decoding from Chinese base8192...",
                                "Decompressing...",
                                "Unpickling...">>)

(***************************************************************************)
(* inference.py: its copy of the decompression pipeline.                   *)
(***************************************************************************)
inference_decompress_model_from_chinese(encoded) ==
    LET compressed == inference_from_chinese_base8192(encoded)
    IN  IF compressed.kind = "raise"
        THEN Printed(compressed, <<"Decoding from Chinese base8192...">>)
        ELSE LET raw == zlib_decompress(compressed.value)
             IN  IF raw.kind = "raise"
                 THEN Printed(raw, <<"Decoding from Chinese base8192...",
                                     "Decompressing...">>)
                 ELSE Printed(pickle_loads(raw.value),
                              <<"Decoding from Chinese base8192...",
                                "Decompressing...",
                                "Unpickling...">>)

(***************************************************************************)
(* Inputs.                                                                 *)
(***************************************************************************)
SeqsUpTo(S, n) == UNION {[1..m -> S] : m \in 0..n}

\* Arguments of to_chinese_base8192.
ByteSeqs ==
    SeqsUpTo(ByteVals, MaxLen) \cup {[k \in 1..n |-> v] : n \in LongLens, v \in ByteVals}

\* Characters of externally supplied texts: the first and the last symbol
\* of the alphabet, the code points just below and just above it, and a
\* line feed.
TextChars == {19968, 28159, 19967, 28160, 10}

\* Texts handed to the decoders from outside; ENCODED as shipped is one.
Texts == SeqsUpTo(TextChars, MaxTextLen) \cup {ENCODED}

\* Element values of archive arrays: exact in float16, a tie between two
\* float16 neighbours, and beyond the float16 range.
ElemVals == {1, -2049, 70000}

DTypes == {float16, float32, float64, int64}

\* An array of a dtype holds only values that dtype represents.
ArraysOf(dtype) ==
    LET vals == IF dtype = float16
                THEN {Finite(n) : n \in {m \in ElemVals : RoundToFloat16(Finite(m)) = Finite(m)}}
                ELSE {Finite(n) : n \in ElemVals}
    IN  {[dtype |-> dtype, values |-> vs] : vs \in SeqsUpTo(vals, MaxElems)}

Arrays == UNION {ArraysOf(d) : d \in DTypes}

\* Names of the arrays of an archive, in the order they were saved.
NameLists == {<< >>, <<"w">>, <<"b">>, <<"w", "b">>}

\* Archives: the items of an .npz file.
Archives ==
    UNION {{[j \in 1..Len(ns) |-> <<ns[j], arrs[j]>>] : arrs \in [1..Len(ns) -> Arrays]} :
              ns \in NameLists}

(***************************************************************************)
(* State: one run of a process that uses the two modules.                  *)
(***************************************************************************)
VARIABLES
    pc,                 \* what the caller has done so far
    data,               \* the bytes passed to to_chinese_base8192
    npz,                \* the archive at npz_path
    reduced,            \* result of the float16_dict_from_npz call
    model_txt,          \* the bytes of the file written to output_path
    written,            \* progress lines of compress_model_to_chinese
    text,               \* the str at hand (encoded / ENCODED)
    decoded,            \* result of optimizer.from_chinese_base8192(text)
    inference_decoded,  \* result of inference.from_chinese_base8192(text)
    model,              \* record of optimizer.decompress_model_from_chinese(text)
    inference_model     \* record of inference.decompress_model_from_chinese(text)

vars == <<tables, pc, data, npz, reduced, model_txt, written, text,
          decoded, inference_decoded, model, inference_model>>

results == <<decoded, inference_decoded, model, inference_model>>

NoRecord == Printed(NotCalled, << >>)

\* The state once both modules are imported and nothing is called yet.
Init ==
    /\ modules = [optimizer |-> optimizer_import, inference |-> inference_import]
    /\ pc = "start"
    /\ data = << >>
    /\ npz = << >>
    /\ reduced = NotCalled
    /\ model_txt = << >>
    /\ written = << >>
    /\ text = << >>
    /\ decoded = NotCalled
    /\ inference_decoded = NotCalled
    /\ model = NoRecord
    /\ inference_model = NoRecord

\* A text is at hand once an encoder produced it or the caller obtained it.
\* The caller then passes it to the four consumers one after the other;
\* none of them reads anything but its argument and the tables, so the
\* order of the calls affects no result.
TextAtHand == pc \in {"encoded", "read", "truncated", "supplied"}

\* encoded = to_chinese_base8192(data)
CallToChineseBase8192 ==
    /\ pc = "start"
    /\ \E b \in ByteSeqs :
        /\ data' = b
        /\ text' = to_chinese_base8192(b)
    /\ pc' = "encoded"
    /\ UNCHANGED <<tables, npz, reduced, model_txt, written, results>>

\* original = float16_dict_from_npz(npz_path)
CallFloat16DictFromNpz ==
    /\ pc = "start"
    /\ \E a \in Archives :
        /\ npz' = a
        /\ reduced' = Return(float16_dict_from_npz(a))
    /\ pc' = "reduced"
    /\ UNCHANGED <<tables, data, model_txt, written, text, results>>

\* compress_model_to_chinese(npz_path, compressed_file)
CallCompressModelToChinese ==
    /\ pc = "start"
    /\ \E a \in Archives :
        /\ npz' = a
        /\ model_txt' = compress_model_to_chinese(a).file
        /\ written' = compress_model_to_chinese(a).stdout
    /\ pc' = "written"
    /\ UNCHANGED <<tables, data, reduced, text, results>>

\* with open(compressed_file, "r", encoding="utf-8") as f: encoded = f.read()
ReadCompressedFile ==
    /\ pc = "written"
    /\ text' = utf8_decode(model_txt)
    /\ pc' = "read"
    /\ UNCHANGED <<tables, data, npz, reduced, model_txt, written, results>>

\* The artifact reaches the decoding side with its last symbols missing.
ReadTruncatedFile ==
    /\ pc = "written"
    /\ \E cut \in 1..MaxCut :
        LET full == utf8_decode(model_txt)
        IN  /\ cut <= Len(full)
            /\ text' = SubSeq(full, 1, Len(full) - cut)
    /\ pc' = "truncated"
    /\ UNCHANGED <<tables, data, npz, reduced, model_txt, written, results>>

\* The decoding side is given a text from elsewhere (ENCODED edited by hand).
SupplyText ==
    /\ pc = "start"
    /\ text' \in Texts
    /\ pc' = "supplied"
    /\ UNCHANGED <<tables, data, npz, reduced, model_txt, written, results>>

\* optimizer.from_chinese_base8192(text)
CallFromChineseBase8192 ==
    /\ TextAtHand
    /\ decoded = NotCalled
    /\ decoded' = from_chinese_base8192(text)
    /\ UNCHANGED <<tables, pc, data, npz, reduced, model_txt, written, text,
                   inference_decoded, model, inference_model>>

\* inference.from_chinese_base8192(text)
InferenceCallFromChineseBase8192 ==
    /\ TextAtHand
    /\ decoded # NotCalled
    /\ inference_decoded = NotCalled
    /\ inference_decoded' = inference_from_chinese_base8192(text)
    /\ UNCHANGED <<tables, pc, data, npz, reduced, model_txt, written, text,
                   decoded, model, inference_model>>

\* model = optimizer.decompress_model_from_chinese(encoded)
CallDecompressModelFromChinese ==
    /\ TextAtHand
    /\ inference_decoded # NotCalled
    /\ model = NoRecord
    /\ model' = decompress_model_from_chinese(text)
    /\ UNCHANGED <<tables, pc, data, npz, reduced, model_txt, written, text,
                   decoded, inference_decoded, inference_model>>

\* model = inference.decompress_model_from_chinese(ENCODED)
InferenceCallDecompressModelFromChinese ==
    /\ TextAtHand
    /\ model # NoRecord
    /\ inference_model = NoRecord
    /\ inference_model' = inference_decompress_model_from_chinese(text)
    /\ UNCHANGED <<tables, pc, data, npz, reduced, model_txt, written, text,
                   decoded, inference_decoded, model>>

Next ==
    \/ CallToChineseBase8192
    \/ CallFloat16DictFromNpz
    \/ CallCompressModelToChinese
    \/ ReadCompressedFile
    \/ ReadTruncatedFile
    \/ SupplyText
    \/ CallFromChineseBase8192
    \/ InferenceCallFromChineseBase8192
    \/ CallDecompressModelFromChinese
    \/ InferenceCallDecompressModelFromChinese

Spec == Init /\ [][Next]_vars

(***************************************************************************)
(* Properties.                                                             *)
(***************************************************************************)
\* The symbols of the alphabet: the 8192 code points from U+4E00 on.
Alphabet == 19968..(19968 + 8191)

OverAlphabet(t) == \A k \in 1..Len(t) : t[k] \in Alphabet

\* Zero bits the encoder appends to a bit string of 8 * n bits.
Padding(n) == (13 - ((8 * n) % 13)) % 13

CeilDiv(a, b) == (a + b - 1) \div b

\* Two call results are the same outcome.
SameOutcome(a, b) ==
    /\ a.kind = b.kind
    /\ a.kind = "return" => a.value = b.value
    /\ a.kind = "raise" => /\ a.exc = b.exc
                           /\ a.exc = "KeyError" => a.arg = b.arg

DecodingLine == "Decoding from Chinese base8192..."
DecompressingLine == "Decompressing..."
UnpicklingLine == "Unpickling..."

\* C1: codec round trip.  Decoding the text that to_chinese_base8192
\* produced for a byte sequence returns exactly that byte sequence.
C1_RoundTrip ==
    (pc = "encoded" /\ decoded # NotCalled) =>
        (decoded.kind = "return" /\ decoded.value = data)

\* C2: pipeline round trip.  Decompressing the text read back from the
\* file that compress_model_to_chinese wrote succeeds and returns a mapping
\* with the archive's names whose entries are the precision-reduced
\* entries, every originally floating entry being float16.
C2_PipelineRoundTrip ==
    (pc = "read" /\ model # NoRecord) =>
        /\ model.result.kind = "return"
        /\ model.stdout = <<DecodingLine, DecompressingLine, UnpicklingLine>>
        /\ LET weights == model.result.value
           IN  /\ Len(weights) = Len(npz)
               /\ \A j \in 1..Len(npz) :
                    /\ weights[j][1] = npz[j][1]
                    /\ weights[j] = float16_dict_from_npz(npz)[j]
                    /\ npz[j][2].dtype.kind = "f" => weights[j][2].dtype = float16
                    /\ npz[j][2].dtype.kind # "f" => weights[j][2] = npz[j][2]

\* C2 witness: a round trip of an archive with a float32 value that the
\* reduction changes, in which the decoder handed the decompressor one
\* byte more than the compressor produced.
C2_Witness ==
    /\ pc = "read"
    /\ model.result.kind = "return"
    /\ decoded.kind = "return"
    /\ Len(decoded.value) = written[5][2] + 1
    /\ \E j \in 1..Len(npz) :
        /\ npz[j][2] = [dtype |-> float32, values |-> <<Finite(70000)>>]
        /\ model.result.value[j][2] = [dtype |-> float16, values |-> <<Infinity(1)>>]

\* C3: symbol count.  The encoder returns ceil(8 * len(data) / 13) symbols,
\* each one a symbol of the alphabet; no bytes give no symbols.
C3_SymbolCount ==
    (pc = "encoded") =>
        /\ Len(text) = CeilDiv(8 * Len(data), 13)
        /\ OverAlphabet(text)
        /\ data = << >> => text = << >>

\* C3 witness: 100 bytes encoded to 62 symbols.
C3_Witness == pc = "encoded" /\ Len(data) = 100 /\ Len(text) = 62

\* C4: unknown symbol rejection.  On a text with a character outside the
\* alphabet, at any position, both decoders raise KeyError and return no
\* bytes, and both decompress_model_from_chinese raise the same error
\* having printed only the decoding line.
C4_UnknownSymbol ==
    (TextAtHand /\ ~OverAlphabet(text)) =>
        /\ \A r \in {decoded, inference_decoded} :
              r # NotCalled =>
                  /\ r.kind = "raise"
                  /\ r.exc = "KeyError"
                  /\ r.arg \notin Alphabet
                  /\ "value" \notin DOMAIN r
        /\ \A m \in {model, inference_model} :
              m # NoRecord =>
                  /\ m.result.kind = "raise"
                  /\ m.result.exc = "KeyError"
                  /\ "value" \notin DOMAIN m.result
                  /\ m.stdout = <<DecodingLine>>

\* C4 witness: an unknown character between two symbols of the alphabet,
\* passed to all four functions.
C4_Witness ==
    /\ pc = "supplied"
    /\ text = <<19968, 10, 28159>>
    /\ decoded.kind = "raise"
    /\ inference_decoded.kind = "raise"
    /\ model.result.kind = "raise"
    /\ inference_model.result.kind = "raise"

\* C5 as stated: after float16_dict_from_npz the names are those of the
\* archive, every floating entry is floating and strictly narrower than it
\* was, and every other entry is returned unchanged.
C5_StrictlyNarrower ==
    (pc = "reduced") =>
        LET obj == reduced.value
        IN  /\ Len(obj) = Len(npz)
            /\ \A j \in 1..Len(npz) :
                 /\ obj[j][1] = npz[j][1]
                 /\ npz[j][2].dtype.kind = "f" =>
                        /\ obj[j][2].dtype.kind = "f"
                        /\ obj[j][2].dtype.itemsize < npz[j][2].dtype.itemsize
                 /\ npz[j][2].dtype.kind # "f" => obj[j][2] = npz[j][2]

\* C5 amended: after float16_dict_from_npz the names are those of the
\* archive, every floating entry is float16 (strictly narrower than it was
\* unless it already was float16, whose width and values are unchanged),
\* and every other entry is returned unchanged.
C5_Float16OrUnchanged ==
    (pc = "reduced") =>
        LET obj == reduced.value
        IN  /\ reduced.kind = "return"
            /\ Len(obj) = Len(npz)
            /\ \A j \in 1..Len(npz) :
                 /\ obj[j][1] = npz[j][1]
                 /\ npz[j][2].dtype.kind = "f" =>
                        /\ obj[j][2].dtype = float16
                        /\ Len(obj[j][2].values) = Len(npz[j][2].values)
                        /\ npz[j][2].dtype.itemsize > 2 =>
                               obj[j][2].dtype.itemsize < npz[j][2].dtype.itemsize
                        /\ npz[j][2].dtype = float16 => obj[j][2] = npz[j][2]
                 /\ npz[j][2].dtype.kind # "f" => obj[j][2] = npz[j][2]

\* C5 witness: an archive with a float16 entry and an integer entry that
\* holds a value float16 cannot represent.
C5_Witness ==
    /\ pc = "reduced"
    /\ \E i, j \in 1..Len(npz) :
        /\ npz[i][2] = [dtype |-> float16, values |-> <<Finite(1)>>]
        /\ npz[j][2] = [dtype |-> int64, values |-> <<Finite(70000)>>]
        /\ reduced.value[j][2] = npz[j][2]

\* C6: corrupt payload.  When the decoded bytes are no valid compressed
\* stream, both decompress_model_from_chinese raise zlib.error and return
\* no mapping, having printed the decoding and the decompressing line once
\* each and never the unpickling line.
C6_CorruptPayload ==
    (/\ TextAtHand
     /\ decoded.kind = "return"
     /\ zlib_decompress(decoded.value).kind = "raise") =>
        \A m \in {model, inference_model} :
            m # NoRecord =>
                /\ m.result.kind = "raise"
                /\ m.result.exc = "zlib.error"
                /\ "value" \notin DOMAIN m.result
                /\ m.stdout = <<DecodingLine, DecompressingLine>>

\* C6 witness: a written artifact that lost its last symbol, passed to
\* both decompress_model_from_chinese.
C6_Witness ==
    /\ pc = "truncated"
    /\ Len(npz) > 0
    /\ model.result.kind = "raise"
    /\ model.result.exc = "zlib.error"
    /\ inference_model.result.kind = "raise"
    /\ inference_model.result.exc = "zlib.error"

\* In both modules CHINESE_CHARS holds 8192 pairwise distinct symbols,
\* CHAR_TO_VAL has exactly those 8192 keys and
\* CHAR_TO_VAL[CHINESE_CHARS[i]] = i for every index i.
Bijective ==
    /\ DOMAIN CHINESE_CHARS = 0..8191
    /\ Cardinality({CHINESE_CHARS[i] : i \in DOMAIN CHINESE_CHARS}) = 8192
    /\ DOMAIN CHAR_TO_VAL = {CHINESE_CHARS[i] : i \in DOMAIN CHINESE_CHARS}
    /\ Cardinality(DOMAIN CHAR_TO_VAL) = 8192
    /\ \A i \in 0..8191 : CHAR_TO_VAL[CHINESE_CHARS[i]] = i
    /\ DOMAIN inference_CHINESE_CHARS = 0..8191
    /\ Cardinality({inference_CHINESE_CHARS[i] : i \in DOMAIN inference_CHINESE_CHARS}) = 8192
    /\ Cardinality(DOMAIN inference_CHAR_TO_VAL) = 8192
    /\ \A i \in 0..8191 : inference_CHAR_TO_VAL[inference_CHINESE_CHARS[i]] = i

\* C7: alphabet bijection.  The tables are bijective once the modules are
\* imported, and no call changes any of them.
C7_AlphabetBijection == Bijective /\ [][UNCHANGED tables]_vars

\* C7 witness: an encode and both decodes have used the first and the last
\* entry of the tables.
C7_Witness ==
    /\ pc = "encoded"
    /\ decoded.kind = "return"
    /\ inference_decoded.kind = "return"
    /\ \E j, k \in 1..Len(text) :
        /\ text[j] = CHINESE_CHARS[0] /\ CHAR_TO_VAL[text[j]] = 0
        /\ text[k] = CHINESE_CHARS[8191] /\ inference_CHAR_TO_VAL[text[k]] = 8191

\* C8: padding bound.  The encoder pads 8 * N bits with (13 - 8N mod 13)
\* mod 13 zero bits, fewer than 8, and the bits the decoder discards are
\* exactly those.
C8_PaddingBound ==
    (pc = "encoded") =>
        /\ 13 * Len(text) - 8 * Len(data) = Padding(Len(data))
        /\ Padding(Len(data)) < 8
        /\ decoded.kind = "return" =>
               13 * Len(text) - 8 * Len(decoded.value) = Padding(Len(data))

\* C9: the two copies agree.  On every text the two from_chinese_base8192
\* have the same outcome, and the two decompress_model_from_chinese have
\* the same outcome after printing the same stage lines.
C9_CopiesAgree ==
    /\ (decoded # NotCalled /\ inference_decoded # NotCalled) =>
           SameOutcome(decoded, inference_decoded)
    /\ (model # NoRecord /\ inference_model # NoRecord) =>
           /\ SameOutcome(model.result, inference_model.result)
           /\ model.stdout = inference_model.stdout

\* C9 witness: ENCODED as shipped in inference.py, on which all four
\* functions fail at its first character.
C9_Witness ==
    /\ text = ENCODED
    /\ decoded = Raise("KeyError", 60)
    /\ inference_decoded.kind = "raise"
    /\ model.result.kind = "raise"
    /\ inference_model.stdout = <<DecodingLine>>

\* C10: decoded length.  On a text over the alphabet both decoders return
\* floor(13 * len(text) / 8) bytes; decoding an encoder output returns the
\* encoded bytes, followed by one zero byte exactly when the padding was 8
\* bits or more.
C10_DecodedLength ==
    /\ (TextAtHand /\ OverAlphabet(text)) =>
           \A r \in {decoded, inference_decoded} :
               r # NotCalled =>
                   /\ r.kind = "return"
                   /\ Len(r.value) = (13 * Len(text)) \div 8
    /\ (pc = "encoded") =>
           \A r \in {decoded, inference_decoded} :
               r # NotCalled =>
                   /\ r.kind = "return"
                   /\ SubSeq(r.value, 1, Len(data)) = data
                   /\ r.value \in {data, data \o <<0>>}
                   /\ (r.value = data \o <<0>>) <=> (Padding(Len(data)) >= 8)

\* C10 witness: seven bytes, padded with nine bits, decoded to eight.
C10_Witness ==
    /\ pc = "encoded"
    /\ Len(data) = 7
    /\ decoded.kind = "return"
    /\ decoded.value = data \o <<0>>
    /\ inference_decoded.kind = "return"
====
